---- MODULE Spec2Model ----
(***************************************************************************)
(* Model of the mini-AGI backend: the orchestration loop                   *)
(* (backend/orchestrator/core.py), the agent invoker and its JSON decoding *)
(* (agents.py), the tool registry (tools.py), the event model (models.py)  *)
(* and the SQLite conversation store (memory.py).                          *)
(*                                                                         *)
(* Python strings are TLA+ strings (\o is concatenation, Len the length).  *)
(* A Python value that comes out of json.loads is a record [t, s]: t is    *)
(* its type ("none", "str", "list"; "absent" marks a missing dict key) and *)
(* s its text when it is a str.  The args value has two more fields, task  *)
(* and code, the keys the loop and the tools look up.                      *)
(***************************************************************************)
EXTENDS Integers, Sequences, FiniteSets, TLC

\* ---------------------------------------------------------------- bounds
\* largest max_steps a caller passes
MaxSteps == 2
\* orchestrate calls per behaviour
MaxCalls == 1
\* largest clock reading
MaxClock == 2
\* tokens in a response text handed to the decoder
MaxTextLen == 3
\* threads that run store operations side by side
MaxWorkers == 2
\* calls of store functions made one after the other
MaxStoreCalls == 2

\* sep.join(parts)
RECURSIVE Join(_, _)
Join(parts, sep) ==
    IF parts = <<>> THEN ""
    ELSE IF Len(parts) = 1 THEN Head(parts)
    ELSE Head(parts) \o sep \o Join(Tail(parts), sep)

\* ----------------------------------------------------------- Python values
Absent    == [t |-> "absent", s |-> ""]
PyNone    == [t |-> "none", s |-> ""]
PyStr(x)  == [t |-> "str", s |-> x]
PyList    == [t |-> "list", s |-> "x"]        \* the non-empty list ["x"]

NoKeys        == [task |-> Absent, code |-> Absent]
ArgsAbsent    == [t |-> "absent", s |-> ""] @@ NoKeys
ArgsStr(x)    == [t |-> "str", s |-> x] @@ NoKeys
ArgsDict(k)   == [t |-> "dict", s |-> ""] @@ k   \* k: [task, code]
EmptyDict     == ArgsDict(NoKeys)

\* bool(v): None, "", {} are falsy; a non-empty str, list or dict is truthy
Truthy(v) ==
    CASE v.t = "none" -> FALSE
      [] v.t = "str"  -> v.s # ""
      [] v.t = "list" -> TRUE
      [] v.t = "dict" -> v.task # Absent \/ v.code # Absent
      [] OTHER        -> FALSE

\* str(v), as an f-string renders it
PyFormat(v) ==
    CASE v.t = "none" -> "None"
      [] v.t = "str"  -> v.s
      [] v.t = "list" -> "['x']"
      [] OTHER        -> "{}"

\* json.dumps of one value
DumpsValue(v) ==
    CASE v.t = "none" -> "null"
      [] v.t = "str"  -> "\"" \o v.s \o "\""
      [] v.t = "list" -> "[\"x\"]"
      [] v.t = "dict" ->
           "{" \o (IF v.task # Absent
                     THEN "\"task\": \"" \o v.task.s \o "\"" ELSE "")
               \o (IF v.task # Absent /\ v.code # Absent THEN ", " ELSE "")
               \o (IF v.code # Absent
                     THEN "\"code\": \"" \o v.code.s \o "\"" ELSE "")
               \o "}"
      [] OTHER        -> ""

SchemaKeys == <<"thought", "action", "tool", "target_agent", "args", "answer">>

\* the keys of seq ks that dict d holds (present = TRUE) or lacks
RECURSIVE KeysWhere(_, _, _)
KeysWhere(d, ks, present) ==
    IF ks = <<>> THEN <<>>
    ELSE (IF (d[Head(ks)].t # "absent") = present THEN <<Head(ks)>> ELSE <<>>)
         \o KeysWhere(d, Tail(ks), present)

RECURSIVE DumpsItems(_, _)
DumpsItems(d, ks) ==
    IF ks = <<>> THEN ""
    ELSE "\"" \o Head(ks) \o "\": " \o DumpsValue(d[Head(ks)])
         \o (IF Len(ks) > 1 THEN ", " ELSE "")
         \o DumpsItems(d, Tail(ks))

\* json.dumps(result): keys in the dict's insertion order
json_dumps(res) == "{" \o DumpsItems(res.d, res.order) \o "}"

\* ------------------------------------------------------------- registries
AGENTS == {"orchestrator", "coder", "researcher"}
TOOLS  == {"read_file", "write_file", "run_python", "mcp_filesystem", "mcp_trader"}

\* ------------------------------------------------ agents.py: run_agent
NoFields == [thought |-> Absent, action |-> Absent, tool |-> Absent,
             target_agent |-> Absent, args |-> ArgsAbsent, answer |-> Absent]
NoResult == [d |-> NoFields, order |-> <<>>]

\* the documented default of each key (agents.py, step 5)
DefaultOf(k) ==
    CASE k = "thought"      -> PyStr("")
      [] k = "action"       -> PyStr("final")
      [] k = "tool"         -> PyNone
      [] k = "target_agent" -> PyNone
      [] k = "args"         -> EmptyDict
      [] k = "answer"       -> PyStr("")

\* the defaults written over every falsy value: data[k] = data.get(k) or
\* default
SetDefaults_Falsy(d) ==
    [d |-> [k \in DOMAIN d |->
               IF d[k].t = "absent" \/ ~Truthy(d[k]) THEN DefaultOf(k) ELSE d[k]],
     order |-> KeysWhere(d, SchemaKeys, TRUE) \o KeysWhere(d, SchemaKeys, FALSE)]

\* data.setdefault(k, default) for the six keys: a present key keeps its
\* value, a missing key is appended after the keys that were parsed
SetDefaults(d) ==
    [d |-> [k \in DOMAIN d |-> IF d[k].t = "absent" THEN DefaultOf(k) ELSE d[k]],
     order |-> KeysWhere(d, SchemaKeys, TRUE) \o KeysWhere(d, SchemaKeys, FALSE)]

\* the fallback record without the response text
FallbackData_Empty(raw) ==
    [thought |-> PyStr("JSON parsing failed"), action |-> PyStr("final"),
     tool |-> PyNone, target_agent |-> PyNone, args |-> EmptyDict,
     answer |-> PyStr("")]

\* the "ultimate fallback" record
FallbackData(raw) ==
    [thought |-> PyStr("JSON parsing failed"), action |-> PyStr("final"),
     tool |-> PyNone, target_agent |-> PyNone, args |-> EmptyDict,
     answer |-> PyStr(raw)]

\* What the LLM transport hands back: kind "fail" when call_llm raises
\* (HTTP failure, unexpected response shape), else kind "text" with the
\* response text raw.
\*
\* A text is a sequence of tokens separated by single blanks.  A token is
\*   "obj"    the text of one JSON object, from its { to its }, with the
\*            fields obj
\*   "val"    the text s of one JSON value that is no object and holds no
\*            brace: [1], 7, "s", true, null
\*   "open"   a { that opens no JSON object        "close"   such a }
\*   "prose"  a run s of other characters, with no brace and no JSON value
ObjTok(o)  == [k |-> "obj", obj |-> o, s |-> ""]
ValTok(x)  == [k |-> "val", obj |-> NoFields, s |-> x]
Prose(x)   == [k |-> "prose", obj |-> NoFields, s |-> x]
OpenBrace  == [k |-> "open", obj |-> NoFields, s |-> "{"]
CloseBrace == [k |-> "close", obj |-> NoFields, s |-> "}"]
\* a markdown code fence (its three grave accents are written ^^^: a TLA+
\* string cannot hold a grave accent)
Fence      == Prose("^^^")

Reply(kind, raw) == [kind |-> kind, raw |-> raw]

\* the characters of one token
TokText(tok) ==
    IF tok.k = "obj"
      THEN "{" \o DumpsItems(tok.obj, KeysWhere(tok.obj, SchemaKeys, TRUE)) \o "}"
      ELSE tok.s

RECURSIVE TokTexts(_)
TokTexts(raw) ==
    IF raw = <<>> THEN <<>> ELSE <<TokText(Head(raw))>> \o TokTexts(Tail(raw))

\* the response as a Python str
TextOf(raw) == Join(TokTexts(raw), " ")

\* what json.loads gives: a dict, None, or another Python object
JDict(o) == [t |-> "dict", obj |-> o]
JNone    == [t |-> "none", obj |-> NoFields]
JOther   == [t |-> "other", obj |-> NoFields]

\* json.loads(text): ok is FALSE when it raises JSONDecodeError.  A text is
\* JSON when it is one JSON value (blanks around it are skipped); { } is
\* the empty object.
json_loads(raw) ==
    IF Len(raw) = 1 /\ raw[1].k = "obj"
      THEN [ok |-> TRUE, v |-> JDict(raw[1].obj)]
    ELSE IF Len(raw) = 1 /\ raw[1].k = "val"
      THEN [ok |-> TRUE, v |-> IF raw[1].s = "null" THEN JNone ELSE JOther]
    ELSE IF raw = <<OpenBrace, CloseBrace>>
      THEN [ok |-> TRUE, v |-> JDict(NoFields)]
    ELSE [ok |-> FALSE, v |-> JNone]

\* raw_response.find("{"): the token that holds the first { (0: none)
BraceStart(raw) ==
    LET I == {i \in 1..Len(raw) : raw[i].k \in {"open", "obj"}}
    IN  IF I = {} THEN 0 ELSE CHOOSE i \in I : \A j \in I : i <= j

\* raw_response.rfind("}"): the token that holds the last } (0: none)
BraceEnd(raw) ==
    LET I == {i \in 1..Len(raw) : raw[i].k \in {"close", "obj"}}
    IN  IF I = {} THEN 0 ELSE CHOOSE i \in I : \A j \in I : i >= j

\* step 4 of run_agent, "Parse JSON with fallbacks": the value of data
\* before the ultimate fallback
ParseWithFallbacks(raw) ==
    LET direct == json_loads(raw)
        start  == BraceStart(raw)
        end    == BraceEnd(raw)
    IN  IF direct.ok THEN direct.v
        ELSE IF start # 0 /\ end >= start
          THEN LET sub == json_loads(SubSeq(raw, start, end))
               IN  IF sub.ok THEN sub.v ELSE JNone
        ELSE JNone

\* the exceptions that can leave orchestrate, by where they are raised
UNKNOWN_AGENT   == "ValueError: Unknown agent"                    \* run_agent
LLM_ERROR       == "Exception: Failed to call the LLM"            \* call_llm
DECODE_ERROR    == "AttributeError: no attribute 'setdefault'"    \* run_agent
EVENT_ERROR     == "ValidationError: OrchestratorEvent"           \* models.py
KWARGS_ERROR    == "TypeError: argument after ** must be a mapping"
ARGS_GET_ERROR  == "AttributeError: no attribute 'get'"
TOOL_EXIT       == "SystemExit"
BIND_ERROR      == "InterfaceError: Error binding parameter"      \* sqlite3
ID_ERROR        == "IntegrityError: UNIQUE constraint failed: sessions.session_id"

\* run_agent with the transport failure swallowed: the degraded record with
\* an empty answer instead of the exception
run_agent_Swallow(agent_name, reply) ==
    IF agent_name \notin AGENTS
      THEN [exc |-> UNKNOWN_AGENT, res |-> NoResult]
    ELSE IF reply.kind = "fail"
      THEN [exc |-> "", res |-> SetDefaults(FallbackData(""))]
    ELSE LET data == ParseWithFallbacks(reply.raw)
         IN  IF data.t = "none"
               THEN [exc |-> "", res |-> SetDefaults(FallbackData(TextOf(reply.raw)))]
             ELSE IF data.t = "dict"
               THEN [exc |-> "", res |-> SetDefaults(data.obj)]
             ELSE [exc |-> DECODE_ERROR, res |-> NoResult]

\* run_agent: exc is the exception that leaves run_agent ("" when it
\* returns), res the returned dict.  data.setdefault raises on a parsed
\* value that is neither None nor a dict.
run_agent(agent_name, reply) ==
    IF agent_name \notin AGENTS
      THEN [exc |-> UNKNOWN_AGENT, res |-> NoResult]
    ELSE IF reply.kind = "fail"
      THEN [exc |-> LLM_ERROR, res |-> NoResult]
    ELSE LET data == ParseWithFallbacks(reply.raw)
         IN  IF data.t = "none"
               THEN [exc |-> "", res |-> SetDefaults(FallbackData(TextOf(reply.raw)))]
             ELSE IF data.t = "dict"
               THEN [exc |-> "", res |-> SetDefaults(data.obj)]
             ELSE [exc |-> DECODE_ERROR, res |-> NoResult]

\* ------------------------------------------------------ memory.py: store
VARIABLES
    sessions,        \* table sessions: session_id -> row
    conversations,   \* table conversations, in rowid order
    conv_seq,        \* AUTOINCREMENT counter of conversations.id
    memory_facts,    \* table memory_facts, in rowid order
    now              \* the clock

storeVars == <<sessions, conversations, conv_seq, memory_facts, now>>

Min(a, b) == IF a < b THEN a ELSE b

RECURSIVE Reverse(_)
Reverse(q) == IF q = <<>> THEN <<>> ELSE Reverse(Tail(q)) \o <<Head(q)>>

RECURSIVE SelectWhere(_, _)
\* the rows of table q whose session_id is sid, in rowid order
SelectWhere(q, sid) ==
    IF q = <<>> THEN <<>>
    ELSE (IF Head(q).session_id = sid THEN <<Head(q)>> ELSE <<>>)
         \o SelectWhere(Tail(q), sid)

\* ORDER BY timestamp DESC: row r goes before the first row that is older
RECURSIVE InsertDesc(_, _)
InsertDesc(r, q) ==
    IF q = <<>> THEN <<r>>
    ELSE IF Head(q).timestamp < r.timestamp THEN <<r>> \o q
    ELSE <<Head(q)>> \o InsertDesc(r, Tail(q))

RECURSIVE OrderByTimestampDesc(_)
OrderByTimestampDesc(q) ==
    IF q = <<>> THEN <<>>
    ELSE InsertDesc(q[Len(q)], OrderByTimestampDesc(SubSeq(q, 1, Len(q) - 1)))

\* get_conversation_history(session_id, limit): newest limit rows, then
\* reversed to chronological order
get_conversation_history(convs, session_id, limit) ==
    LET rows == OrderByTimestampDesc(SelectWhere(convs, session_id))
    IN  Reverse(SubSeq(rows, 1, Min(limit, Len(rows))))

TurnText(turn) ==
    "User: " \o turn.user_message \o "\nAI: " \o turn.ai_response \o "\n"

\* the loop with continue in place of break: a turn that would overflow is
\* passed over and later turns that fit are still taken
RECURSIVE ContextParts_Skip(_, _, _)
ContextParts_Skip(history, total_chars, max_chars) ==
    IF history = <<>> THEN <<>>
    ELSE LET turn_text == TurnText(Head(history))
         IN IF total_chars + Len(turn_text) > max_chars
              THEN ContextParts_Skip(Tail(history), total_chars, max_chars)
            ELSE <<turn_text>>
                 \o ContextParts_Skip(Tail(history),
                                      total_chars + Len(turn_text), max_chars)

\* the loop of get_recent_context: turns are taken from the front of
\* history until one would overflow max_chars
RECURSIVE ContextParts(_, _, _)
ContextParts(history, total_chars, max_chars) ==
    IF history = <<>> THEN <<>>
    ELSE LET turn_text == TurnText(Head(history))
         IN IF total_chars + Len(turn_text) > max_chars THEN <<>>
            ELSE <<turn_text>>
                 \o ContextParts(Tail(history), total_chars + Len(turn_text),
                                 max_chars)

get_recent_context(convs, session_id, max_turns, max_chars) ==
    LET history == get_conversation_history(convs, session_id, max_turns)
        context_parts == ContextParts(history, 0, max_chars)
    IN  IF context_parts = <<>> THEN ""
        ELSE "Previous conversation:\n" \o Join(context_parts, "\n")

\* the rows selected with no user filter at all
FactsOf_All(q, user_id) == q

\* get_memory_facts(user_id): the rows of that user (every row when user_id
\* is falsy), ORDER BY confidence DESC, updated_at DESC
RECURSIVE FactsOf(_, _)
FactsOf(q, user_id) ==
    IF q = <<>> THEN <<>>
    ELSE (IF ~Truthy(user_id) \/ Head(q).user_id = user_id
            THEN <<Head(q)>> ELSE <<>>)
         \o FactsOf(Tail(q), user_id)

FactBefore(a, b) ==
    \/ a.confidence > b.confidence
    \/ a.confidence = b.confidence /\ a.updated_at > b.updated_at

RECURSIVE InsertFact(_, _)
InsertFact(r, q) ==
    IF q = <<>> THEN <<r>>
    ELSE IF FactBefore(r, Head(q)) THEN <<r>> \o q
    ELSE <<Head(q)>> \o InsertFact(r, Tail(q))

RECURSIVE OrderFacts(_)
OrderFacts(q) ==
    IF q = <<>> THEN <<>>
    ELSE InsertFact(q[Len(q)], OrderFacts(SubSeq(q, 1, Len(q) - 1)))

get_memory_facts(facts, user_id) == OrderFacts(FactsOf(facts, user_id))

RECURSIVE FactLines(_)
FactLines(q) ==
    IF q = <<>> THEN <<>>
    ELSE <<"- " \o Head(q).fact_key \o ": " \o Head(q).fact_value>>
         \o FactLines(Tail(q))

format_memory_facts(facts, user_id) ==
    LET fs == get_memory_facts(facts, user_id)
    IN  IF fs = <<>> THEN ""
        ELSE "Known facts about user:\n" \o Join(FactLines(fs), "\n")

\* session id of create_session: the first 16 hex digits of the MD5 of
\* "<user_id>_<timestamp>"; the digest is modelled as its input, so equal
\* inputs give equal ids and different inputs different ids
SessionIdOf(user_id, timestamp) ==
    "md5(" \o PyFormat(user_id) \o "_" \o ToString(timestamp) \o ")"

\* a session row that counts a message from its creation
NewSessionRow_Counted(user_id, ts) ==
    [user_id |-> user_id, created_at |-> ts, last_activity |-> ts,
     message_count |-> 1]

\* the row create_session inserts
NewSessionRow(user_id, ts) ==
    [user_id |-> user_id, created_at |-> ts, last_activity |-> ts,
     message_count |-> 0]

\* a session fetched by minting: the id passed in is never looked up
get_or_create_session_Mint(sess, session_id, user_id, ts) ==
    LET minted == SessionIdOf(user_id, ts)
    IN IF minted \in DOMAIN sess
         THEN [exc |-> ID_ERROR, sid |-> minted, created |-> FALSE]
         ELSE [exc |-> "", sid |-> minted, created |-> TRUE]

\* get_or_create_session: the id it returns and whether it inserts a row;
\* exc is ID_ERROR when the minted id is already a primary key
get_or_create_session(sess, session_id, user_id, ts) ==
    IF Truthy(session_id) /\ session_id.s \in DOMAIN sess
      THEN [exc |-> "", sid |-> session_id.s, created |-> FALSE]
    ELSE LET minted == SessionIdOf(user_id, ts)
         IN IF minted \in DOMAIN sess
              THEN [exc |-> ID_ERROR, sid |-> minted, created |-> FALSE]
              ELSE [exc |-> "", sid |-> minted, created |-> TRUE]

\* update_session_activity: UPDATE ... WHERE session_id = ?
update_session_activity(sess, sid, ts) ==
    [x \in DOMAIN sess |->
        IF x = sid
          THEN [sess[x] EXCEPT !.last_activity = ts,
                               !.message_count = @ + 1]
          ELSE sess[x]]

\* --------------------------------------------- tools.py: the registry
\* the tools that go through call_mcp_tool, with the server and the remote
\* tool the registry gives them when the arguments name none
McpTools == {"mcp_filesystem", "mcp_trader"}
McpServer(tool_name) ==
    IF tool_name = "mcp_filesystem" THEN "http://localhost:8001"
    ELSE "http://localhost:8002"
McpDefaultTool(tool_name) ==
    IF tool_name = "mcp_filesystem" THEN "list_files" ELSE "backtest"

\* what call_mcp_tool returns when requests.post raises: the except clause
\* turns the exception into text
McpTransportError(tool_name) ==
    "ERROR(mcp:" \o McpServer(tool_name) \o "," \o McpDefaultTool(tool_name)
    \o "): connection refused"

\* What calling TOOLS[tool_name](**kw) can do.  Every tool body runs inside
\* try ... except Exception and returns text; the exec of run_python can
\* also leave through an exception that is no Exception (SystemExit,
\* KeyboardInterrupt raised by the executed code).  With no code the exec
\* runs the empty program.
ToolOutcomes(tool_name, kw) ==
    IF tool_name = "run_python"
      THEN IF kw.code.t = "str" /\ kw.code.s # ""
             THEN {[exc |-> "", out |-> "EXEC_OK: {'r': 1}"],
                   [exc |-> "", out |-> "EXEC_ERROR: boom"],
                   [exc |-> TOOL_EXIT, out |-> ""]}
             ELSE {[exc |-> "", out |-> "EXEC_OK: {}"]}
    ELSE IF tool_name = "read_file"
      THEN {[exc |-> "", out |-> "ERROR(read_file): no such file"]}
    ELSE IF tool_name = "write_file"
      THEN {[exc |-> "", out |-> "OK: Wrote 0 chars to "]}
    ELSE {[exc |-> "", out |-> McpTransportError(tool_name)],
          [exc |-> "", out |-> "mcp response"]}

NoOutcome == [exc |-> "", out |-> ""]

\* --------------------------------------------- core.py: orchestrate
VARIABLES
    pc,              \* "idle", "loop", "insert", "update", "returned", "raised";
                     \* "decoded" when run_agent was called on its own
    user_input, max_steps, user_id, persona,    \* arguments of the call
    session_id,      \* the id get_or_create_session returned
    context_used, context_log, events,
    current_agent, current_query,
    step,            \* the loop variable of the for statement
    results,         \* the dicts run_agent returned in this call, in order
    final_answer,
    error,           \* the exception that left orchestrate ("" if none)
    prompts,         \* every run_agent call of this call: its arguments
                     \* and what the LLM transport answered
    tool_calls,      \* the tool calls made by this call: tool and kwargs
    written,         \* ids of the turns this call inserted
    ncalls           \* orchestrate calls started so far

VARIABLE
    ops              \* the store operation each worker thread is running,
                     \* when operations run side by side

VARIABLE
    call             \* the last call of a store function made on its own:
                     \* the function, its arguments and what it returned

callVars == <<pc, user_input, max_steps, user_id, persona, session_id,
              context_used, context_log, events, current_agent,
              current_query, step, results, final_answer, error, prompts,
              tool_calls, written, ncalls>>

vars == <<storeVars, callVars, ops, call>>

COORDINATOR == "orchestrator"
NO_ANSWER == "[NO ANSWER]"
MAX_STEPS_ANSWER == "[MAX STEPS REACHED - No final answer provided]"

\* the loop bound off by one: range(max_steps + 1)
LoopContinues_Inclusive(i, n) == i <= n

\* for step in range(max_steps): one more iteration?
LoopContinues(i, n) == i < n

\* OrchestratorEvent(...) validates its fields: action and thought are str,
\* tool and target_agent are Optional[str]
ValidEvent(d) ==
    /\ d.thought.t = "str"
    /\ d.action.t = "str"
    /\ d.tool.t \in {"str", "none"}
    /\ d.target_agent.t \in {"str", "none"}

NewEvent(i, agent, d) ==
    [step |-> i + 1, agent |-> agent, action |-> d.action, tool |-> d.tool,
     target_agent |-> d.target_agent, thought |-> d.thought]

\* the context entry reduced to the thought of the step
ContextEntry_Summary(agent, i, res) ==
    "[" \o agent \o " step " \o ToString(i + 1) \o "] " \o PyFormat(res.d.thought)

\* f"[{current_agent} step {step+1}] {json.dumps(result)}"
ContextEntry(agent, i, res) ==
    "[" \o agent \o " step " \o ToString(i + 1) \o "] " \o json_dumps(res)

\* args = result.get("args", {}) or {}
ArgsOrEmpty(args) == IF Truthy(args) THEN args ELSE EmptyDict

\* final_answer = answer or "[NO ANSWER]"
FinalAnswer(answer) == IF Truthy(answer) THEN answer ELSE PyStr(NO_ANSWER)

\* (the two grave accents around the tool name are written ^: a TLA+ string
\* cannot hold a grave accent)
ToolQuery(tool_name, tool_output) ==
    "Tool ^" \o PyFormat(tool_name) \o "^ output:\n" \o tool_output
    \o "\n\nNow continue your reasoning and decide next action."

UnknownToolQuery(tool_name) ==
    "Unknown tool '" \o PyFormat(tool_name) \o "'. "
    \o "Please provide a final answer with available information."

UnknownAgentQuery(target_agent) ==
    "Unknown agent '" \o PyFormat(target_agent) \o "'. "
    \o "Please handle the task yourself or use available tools."

InvalidActionQuery(action, res) ==
    "Invalid action '" \o PyFormat(action) \o "'. "
    \o "Previous JSON: " \o json_dumps(res) \o "\n"
    \o "Please provide a 'final' answer."

\* args.get("task", answer) or f"User goal: {user_input}"
DelegateQuery(args, answer, u_input) ==
    LET got == IF args.task # Absent THEN args.task ELSE answer
    IN  IF Truthy(got) THEN PyFormat(got) ELSE "User goal: " \o u_input

\* save_conversation called with the query of the current step as the
\* user message
TurnToSave_Query(sid, u_input, query, answer, uid, pers) ==
    [session_id |-> sid, user_message |-> query, ai_response |-> answer,
     user_id |-> uid, persona |-> pers]

\* the arguments orchestrate passes to save_conversation
TurnToSave(sid, u_input, query, answer, uid, pers) ==
    [session_id |-> sid, user_message |-> u_input, ai_response |-> answer,
     user_id |-> uid, persona |-> pers]

\* the action handled with the delegate target taken as the next agent
\* without a look at the registry
HandleAction_Unchecked(res, agent, query, u_input, oc) ==
    LET d == res.d
        args == ArgsOrEmpty(d.args)
        same == [exc |-> "", final |-> FALSE, agent |-> agent, query |-> query,
                 calls |-> <<>>]
    IN
    IF d.action = PyStr("final")
      THEN [same EXCEPT !.final = TRUE]
    ELSE IF d.action = PyStr("use_tool")
      THEN IF Truthy(d.tool) /\ d.tool.s \in TOOLS
             THEN IF args.t # "dict"
                    THEN [same EXCEPT !.exc = KWARGS_ERROR]
                  ELSE IF oc.exc # ""
                    THEN [same EXCEPT !.exc = oc.exc,
                                      !.calls = <<[tool |-> d.tool.s, kw |-> args]>>]
                  ELSE [same EXCEPT !.query = ToolQuery(d.tool, oc.out),
                                    !.calls = <<[tool |-> d.tool.s, kw |-> args]>>]
             ELSE [same EXCEPT !.agent = COORDINATOR,
                               !.query = UnknownToolQuery(d.tool)]
    ELSE IF d.action = PyStr("delegate")
      THEN IF Truthy(d.target_agent) /\ d.target_agent.t = "str"
             THEN IF args.t # "dict"
                    THEN [same EXCEPT !.exc = ARGS_GET_ERROR]
                    ELSE [same EXCEPT !.agent = d.target_agent.s,
                                      !.query = DelegateQuery(args, d.answer, u_input)]
             ELSE [same EXCEPT !.agent = COORDINATOR,
                               !.query = UnknownAgentQuery(d.target_agent)]
    ELSE [same EXCEPT !.agent = COORDINATOR,
                      !.query = InvalidActionQuery(d.action, res)]

\* step 5 of the loop body, "Handle action", for the decoded dict d of the
\* step acted by agent; oc is what the tool call does if one is made.
\* Gives the exception that leaves the loop (or ""), whether the loop is
\* done, and the next agent and query.
HandleAction(res, agent, query, u_input, oc) ==
    LET d == res.d
        args == ArgsOrEmpty(d.args)
        same == [exc |-> "", final |-> FALSE, agent |-> agent, query |-> query,
                 calls |-> <<>>]
    IN
    IF d.action = PyStr("final")
      THEN [same EXCEPT !.final = TRUE]
    ELSE IF d.action = PyStr("use_tool")
      THEN IF Truthy(d.tool) /\ d.tool.s \in TOOLS
             THEN IF args.t # "dict"
                    THEN [same EXCEPT !.exc = KWARGS_ERROR]
                  ELSE IF oc.exc # ""
                    THEN [same EXCEPT !.exc = oc.exc,
                                      !.calls = <<[tool |-> d.tool.s, kw |-> args]>>]
                  ELSE [same EXCEPT !.query = ToolQuery(d.tool, oc.out),
                                    !.calls = <<[tool |-> d.tool.s, kw |-> args]>>]
             ELSE [same EXCEPT !.agent = COORDINATOR,
                               !.query = UnknownToolQuery(d.tool)]
    ELSE IF d.action = PyStr("delegate")
      THEN IF Truthy(d.target_agent) /\ d.target_agent.s \in AGENTS
             THEN IF args.t # "dict"
                    THEN [same EXCEPT !.exc = ARGS_GET_ERROR]
                    ELSE [same EXCEPT !.agent = d.target_agent.s,
                                      !.query = DelegateQuery(args, d.answer, u_input)]
             ELSE [same EXCEPT !.agent = COORDINATOR,
                               !.query = UnknownAgentQuery(d.target_agent)]
    ELSE [same EXCEPT !.agent = COORDINATOR,
                      !.query = InvalidActionQuery(d.action, res)]

\* what the environment may do in the tool call of the step that decoded
\* res (one dummy outcome when that step calls no tool)
StepOutcomes(res) ==
    LET d == res.d
        args == ArgsOrEmpty(d.args)
    IN  IF /\ d.action = PyStr("use_tool") /\ d.tool.t = "str"
           /\ d.tool.s \in TOOLS /\ args.t = "dict"
          THEN ToolOutcomes(d.tool.s, args)
          ELSE {NoOutcome}

\* ------------------------------------------------------------- inputs
Obj(th, ac, tl, ta, ar, an) ==
    [thought |-> th, action |-> ac, tool |-> tl, target_agent |-> ta,
     args |-> ar, answer |-> an]

Thought  == PyStr("t")
CodeArgs == ArgsDict([task |-> Absent, code |-> PyStr("c")])
TaskArgs(x) == ArgsDict([task |-> PyStr(x), code |-> Absent])

FinalObjs ==
    {Obj(Thought, PyStr("final"), PyNone, PyNone, EmptyDict, an) :
        an \in {Absent, PyStr("a"), PyList}}
    \cup {Obj(Thought, Absent, Absent, Absent, ArgsAbsent, PyStr("a"))}

UseToolObjs ==
    {Obj(Thought, PyStr("use_tool"), PyStr("run_python"), PyNone, ar, PyStr("")) :
        ar \in {CodeArgs, ArgsAbsent, ArgsStr("x")}}
    \cup {Obj(Thought, PyStr("use_tool"), tl, PyNone, CodeArgs, PyStr("")) :
            tl \in {PyStr("nope"), Absent, PyList}}
    \cup {Obj(Thought, PyStr("use_tool"), PyStr("mcp_filesystem"), PyNone,
              EmptyDict, PyStr(""))}

DelegateObjs ==
    {Obj(Thought, PyStr("delegate"), PyNone, PyStr("coder"), p[1], p[2]) :
        p \in {<<TaskArgs("do"), PyStr("")>>, <<TaskArgs(""), PyStr("a")>>,
               <<ArgsAbsent, PyStr("a")>>, <<ArgsAbsent, Absent>>,
               <<ArgsStr("x"), PyStr("")>>}}
    \cup {Obj(Thought, PyStr("delegate"), PyNone, ta, TaskArgs("do"), PyStr("")) :
            ta \in {PyStr("ghost"), PyNone, PyList}}

OtherObjs ==
    {Obj(Thought, ac, PyNone, PyNone, EmptyDict, PyStr("")) :
        ac \in {PyStr("bogus"), PyNone}}

\* a complete 'final' object with answer "a"
FinalA == Obj(Thought, PyStr("final"), PyNone, PyNone, EmptyDict, PyStr("a"))

\* the responses of the LLM in a call: a transport failure, each object as
\* the whole text, the empty text, prose only, prose in braces, and a JSON
\* array
Replies ==
    {Reply("fail", <<>>)}
    \cup {Reply("text", <<ObjTok(o)>>) :
            o \in FinalObjs \cup UseToolObjs \cup DelegateObjs \cup OtherObjs}
    \cup {Reply("text", raw) :
            raw \in {<<>>, <<Prose("hello")>>, <<ValTok("[1]")>>,
                     <<OpenBrace, Prose("x"), CloseBrace>>}}

\* an object that holds two keys only, one of them with the value null
SparseObj == Obj(Absent, PyNone, Absent, Absent, ArgsAbsent, PyStr("a"))

\* the response texts handed to the decoder on its own: every sequence of
\* at most MaxTextLen of these tokens
CodecTokens ==
    {Prose("Sure:"), Fence, OpenBrace, CloseBrace, ValTok("[1]"),
     ValTok("null"), ObjTok(FinalA), ObjTok(SparseObj)}
Texts == UNION {[1..n -> CodecTokens] : n \in 0..MaxTextLen}

UserInputs  == {"hi"}
UserIds     == {PyNone, PyStr("u1")}
Personas    == {PyNone}
\* session ids a caller may pass: none, an unknown one, one of the store
SessionArgs == {PyNone, PyStr("nosuch")} \cup {PyStr(x) : x \in DOMAIN sessions}

\* a reading of the clock: time may have passed since the last reading
ClockReadings == {t \in {now, now + 1} : t <= MaxClock}

\* the worker threads and the state of a worker that runs nothing
Workers == 1..MaxWorkers
NoOp ==
    [op |-> "none", pc |-> "none", arg |-> PyNone, sid |-> "",
     created |-> FALSE, turn_id |-> 0, overlapped |-> FALSE, days |-> 0,
     started |-> 0, cutoff_date |-> 0, deleted_count |-> 0, exc |-> "",
     archived |-> {}]

\* no store function has been called on its own
NoCall ==
    [n |-> 0, fn |-> "", session_id |-> PyNone, user_id |-> PyNone,
     user_message |-> "", ai_response |-> "", fact_key |-> "",
     fact_value |-> "", confidence |-> 0, max_turns |-> 0, max_chars |-> 0,
     days |-> 0, started |-> 0, exc |-> "", ret |-> "", count |-> 0,
     history |-> <<>>]

\* ---------------------------------------------------------------- Init
Idle ==
    /\ pc = "idle" /\ user_input = "" /\ max_steps = 0 /\ user_id = PyNone
    /\ persona = PyNone /\ session_id = "" /\ context_used = FALSE
    /\ context_log = <<>> /\ events = <<>> /\ current_agent = COORDINATOR
    /\ current_query = "" /\ step = 0 /\ results = <<>>
    /\ final_answer = PyNone /\ error = "" /\ prompts = <<>>
    /\ tool_calls = <<>> /\ written = {}

\* The database file outlives the process: at start the tables are empty
\* or hold what earlier requests left, here one session of user u1 with no
\* turn, with one saved turn, or with a long turn followed by a short one.
OldSession == SessionIdOf(PyStr("u1"), 0)
OldTurn ==
    [id |-> 1, session_id |-> OldSession, user_id |-> PyStr("u1"),
     timestamp |-> 0, user_message |-> "old", ai_response |-> "reply",
     persona |-> PyNone]
\* a reply of 1984 characters: with it the rendering of LongTurn has 1999
Twice(x) == x \o x
LongReply == Twice(Twice(Twice(Twice(Twice(Twice("xxxxxxxxxxxxxxxxxxxxxxxxxxxxxxx"))))))
LongTurn == [OldTurn EXCEPT !.ai_response = LongReply]
\* the turn saved after LongTurn, one clock unit later
NextTurn == [OldTurn EXCEPT !.id = 2, !.timestamp = 1]
InitStores ==
    {[sessions |-> << >>, conversations |-> <<>>, conv_seq |-> 0],
     [sessions |-> [x \in {OldSession} |-> NewSessionRow(PyStr("u1"), 0)],
      conversations |-> <<>>, conv_seq |-> 0],
     [sessions |-> [x \in {OldSession} |->
                      [NewSessionRow(PyStr("u1"), 0) EXCEPT !.message_count = 1]],
      conversations |-> <<OldTurn>>, conv_seq |-> 1],
     [sessions |-> [x \in {OldSession} |->
                      [NewSessionRow(PyStr("u1"), 0) EXCEPT !.message_count = 2,
                                                           !.last_activity = 1]],
      conversations |-> <<LongTurn, NextTurn>>, conv_seq |-> 2]}

Init ==
    /\ \E st \in InitStores :
         /\ sessions = st.sessions /\ conversations = st.conversations
         /\ conv_seq = st.conv_seq
    /\ memory_facts = <<>> /\ now = 1
    /\ ncalls = 0
    /\ Idle
    /\ ops = [w \in Workers |-> NoOp]
    /\ call = NoCall

Raise(e) == pc' = "raised" /\ error' = e

\* orchestrate, lines 35-60: session, context, initial loop state
Start ==
    /\ UNCHANGED <<ops, call>>
    /\ pc = "idle" /\ ncalls < MaxCalls
    /\ ncalls' = ncalls + 1
    /\ \E ui \in UserInputs, ms \in 0..MaxSteps, sa \in SessionArgs,
          uid \in UserIds, pers \in Personas, ts \in ClockReadings :
         LET g == get_or_create_session(sessions, sa, uid, ts)
             conversation_context ==
                 get_recent_context(conversations, g.sid, 5, 2000)
             user_facts ==
                 IF Truthy(uid) THEN format_memory_facts(memory_facts, uid) ELSE ""
             full_context ==
                 (IF user_facts # "" THEN <<user_facts>> ELSE <<>>)
                 \o (IF conversation_context # "" THEN <<conversation_context>>
                                                  ELSE <<>>)
         IN
         /\ now' = ts
         /\ user_input' = ui /\ max_steps' = ms /\ user_id' = uid
         /\ persona' = pers
         /\ IF g.exc # ""
              THEN /\ Raise(g.exc)
                   /\ UNCHANGED <<sessions, session_id, context_used,
                                  context_log, current_query>>
              ELSE /\ sessions' =
                        IF g.created
                          THEN [x \in DOMAIN sessions \cup {g.sid} |->
                                  IF x = g.sid THEN NewSessionRow(uid, ts)
                                               ELSE sessions[x]]
                          ELSE sessions
                   /\ session_id' = g.sid
                   /\ context_used' = (full_context # <<>>)
                   /\ context_log' =
                        IF full_context # <<>>
                          THEN <<Join(full_context, "\n\n")>> ELSE <<>>
                   /\ current_query' = ui
                   /\ pc' = "loop" /\ error' = ""
    /\ UNCHANGED <<conversations, conv_seq, memory_facts, events,
                   current_agent, step, results, final_answer, prompts,
                   tool_calls, written>>

\* one iteration of the main loop, lines 63-150
Step ==
    /\ UNCHANGED <<ops, call>>
    /\ pc = "loop" /\ LoopContinues(step, max_steps)
    /\ \E reply \in Replies :
       \E oc \in StepOutcomes(run_agent(current_agent, reply).res) :
         LET ra == run_agent(current_agent, reply)
             h  == HandleAction(ra.res, current_agent, current_query,
                                user_input, oc)
         IN
         /\ prompts' = Append(prompts,
                [agent |-> current_agent, query |-> current_query,
                 extra_context |-> Join(context_log, "\n"), reply |-> reply])
         /\ IF ra.exc # ""
              THEN /\ Raise(ra.exc)
                   /\ UNCHANGED <<results, events, context_log, current_agent,
                                  current_query, step, final_answer, tool_calls>>
            ELSE IF ~ValidEvent(ra.res.d)
              THEN /\ Raise(EVENT_ERROR)
                   /\ results' = Append(results, ra.res)
                   /\ UNCHANGED <<events, context_log, current_agent,
                                  current_query, step, final_answer, tool_calls>>
            ELSE /\ results' = Append(results, ra.res)
                 /\ events' = Append(events, NewEvent(step, current_agent, ra.res.d))
                 /\ context_log' =
                      Append(context_log, ContextEntry(current_agent, step, ra.res))
                 /\ tool_calls' = tool_calls \o h.calls
                 /\ IF h.exc # ""
                      THEN /\ Raise(h.exc)
                           /\ UNCHANGED <<current_agent, current_query, step,
                                          final_answer>>
                    ELSE IF h.final
                      THEN /\ final_answer' = FinalAnswer(ra.res.d.answer)
                           /\ pc' = "insert"
                           /\ UNCHANGED <<current_agent, current_query, step,
                                          error>>
                    ELSE /\ current_agent' = h.agent
                         /\ current_query' = h.query
                         /\ step' = step + 1
                         /\ UNCHANGED <<pc, final_answer, error>>
    /\ UNCHANGED <<storeVars, user_input, max_steps, user_id, persona,
                   session_id, context_used, written, ncalls>>

\* the step limit returning the sentinel without saving the turn
LoopExit_NoSave ==
    /\ UNCHANGED <<ops, call>>
    /\ pc = "loop" /\ ~LoopContinues(step, max_steps)
    /\ final_answer' = PyStr(MAX_STEPS_ANSWER)
    /\ pc' = "returned"
    /\ UNCHANGED <<storeVars, user_input, max_steps, user_id, persona,
                   session_id, context_used, context_log, events,
                   current_agent, current_query, step, results, error,
                   prompts, tool_calls, written, ncalls>>

\* the loop ends without a final action, lines 152-153
LoopExit ==
    /\ UNCHANGED <<ops, call>>
    /\ pc = "loop" /\ ~LoopContinues(step, max_steps)
    /\ final_answer' = PyStr(MAX_STEPS_ANSWER)
    /\ pc' = "insert"
    /\ UNCHANGED <<storeVars, user_input, max_steps, user_id, persona,
                   session_id, context_used, context_log, events,
                   current_agent, current_query, step, results, error,
                   prompts, tool_calls, written, ncalls>>

\* save_conversation, lines 192-209: INSERT INTO conversations, commit.
\* sqlite3 binds str and None parameters; binding a list or dict raises.
SaveInsert ==
    /\ UNCHANGED <<ops, call>>
    /\ pc = "insert"
    /\ LET turn == TurnToSave(session_id, user_input, current_query,
                              final_answer, user_id, persona)
       IN IF turn.ai_response.t # "str"
            THEN /\ Raise(BIND_ERROR)
                 /\ UNCHANGED <<conversations, conv_seq, written, now>>
            ELSE \E ts \in ClockReadings :
                 /\ now' = ts
                 /\ conv_seq' = conv_seq + 1
                 /\ conversations' = Append(conversations,
                        [id |-> conv_seq + 1, session_id |-> turn.session_id,
                         user_id |-> turn.user_id, timestamp |-> ts,
                         user_message |-> turn.user_message,
                         ai_response |-> turn.ai_response.s,
                         persona |-> turn.persona])
                 /\ written' = written \cup {conv_seq + 1}
                 /\ pc' = "update" /\ error' = ""
    /\ UNCHANGED <<sessions, memory_facts, user_input, max_steps, user_id,
                   persona, session_id, context_used, context_log, events,
                   current_agent, current_query, step, results, final_answer,
                   prompts, tool_calls, ncalls>>

\* save_conversation, lines 211-214: update_session_activity, then the
\* return of orchestrate
SaveUpdate ==
    /\ UNCHANGED <<ops, call>>
    /\ pc = "update"
    /\ \E ts \in ClockReadings :
         /\ now' = ts
         /\ sessions' = update_session_activity(sessions, session_id, ts)
    /\ pc' = "returned"
    /\ UNCHANGED <<conversations, conv_seq, memory_facts, user_input,
                   max_steps, user_id, persona, session_id, context_used,
                   context_log, events, current_agent, current_query, step,
                   results, final_answer, error, prompts, tool_calls, written,
                   ncalls>>

\* the caller has the result (or the exception); the next request may come
Finish ==
    /\ UNCHANGED <<ops, call>>
    /\ pc \in {"returned", "raised"}
    /\ pc' = "idle" /\ user_input' = "" /\ max_steps' = 0 /\ user_id' = PyNone
    /\ persona' = PyNone /\ session_id' = "" /\ context_used' = FALSE
    /\ context_log' = <<>> /\ events' = <<>> /\ current_agent' = COORDINATOR
    /\ current_query' = "" /\ step' = 0 /\ results' = <<>>
    /\ final_answer' = PyNone /\ error' = "" /\ prompts' = <<>>
    /\ tool_calls' = <<>> /\ written' = {}
    /\ UNCHANGED <<storeVars, ncalls>>

Next == Start \/ Step \/ LoopExit \/ SaveInsert \/ SaveUpdate \/ Finish

Spec == Init /\ [][Next]_vars

\* The request handler runs orchestrate to its end in its own thread: no
\* step of a started call is postponed forever (every LLM call and every
\* tool call comes back within its timeout).
FairSpec ==
    /\ Spec
    /\ WF_vars(Step) /\ WF_vars(LoopExit)
    /\ WF_vars(SaveInsert) /\ WF_vars(SaveUpdate)

\* ------------------------------------------- run_agent called on its own
\* one call of run_agent for an agent of the registry: the LLM answers the
\* text raw, run_agent returns the decoded dict or raises
Decode ==
    /\ UNCHANGED <<ops, call>>
    /\ pc = "idle" /\ prompts = <<>>
    /\ \E agent \in AGENTS, raw \in Texts :
         LET reply == Reply("text", raw)
             ra    == run_agent(agent, reply)
         IN
         /\ current_agent' = agent
         /\ prompts' = <<[agent |-> agent, query |-> "q", extra_context |-> "",
                          reply |-> reply]>>
         /\ IF ra.exc # ""
              THEN Raise(ra.exc) /\ UNCHANGED results
              ELSE results' = <<ra.res>> /\ pc' = "decoded" /\ error' = ""
    /\ UNCHANGED <<storeVars, user_input, max_steps, user_id, persona,
                   session_id, context_used, context_log, events,
                   current_query, step, final_answer, tool_calls, written,
                   ncalls>>

CodecSpec == Init /\ [][Decode]_vars

\* ----------------------------------- store operations run side by side
\* The web server runs each request in a thread of its own, and every
\* function of memory.py opens a connection, runs its statements, commits
\* and closes: one action per transaction.  A worker runs one operation:
\* the store accesses of an orchestrate call ("turn": get_or_create_session,
\* then the two transactions of save_conversation) or cleanup_old_sessions
\* ("cleanup": the cutoff, then the deleting transaction) or
\* archive_old_conversations ("archive": the cutoff and the SELECT, then the
\* DELETE).

\* clock units in a day (the unit is twelve hours)
DayLen == 2
\* the days argument of cleanup_old_sessions
Days == {0, 1}
\* local time minus UTC on the host, in clock units: datetime.now() is
\* local time, CURRENT_TIMESTAMP is UTC
UtcOffsets == {-1, 0, 1}
\* the user of the turns
TurnUser == PyStr("u1")

\* the workers whose turn is between get_or_create_session and the end of
\* save_conversation
InFlight == {w \in Workers : ops[w].op = "turn" /\ ops[w].pc \in {"insert", "update"}}

\* orchestrate, line 36: get_or_create_session(session_id, user_id)
TurnBegin(w) ==
    /\ UNCHANGED call
    /\ ops[w].op = "none"
    /\ \E sa \in SessionArgs \ {PyStr("nosuch")}, ts \in ClockReadings :
         LET g == get_or_create_session(sessions, sa, TurnUser, ts)
         IN
         /\ now' = ts
         /\ IF g.exc # ""
              THEN /\ ops' = [ops EXCEPT ![w] =
                         [NoOp EXCEPT !.op = "turn", !.pc = "raised",
                                      !.arg = sa, !.exc = g.exc]]
                   /\ UNCHANGED sessions
              ELSE /\ ops' = [ops EXCEPT ![w] =
                         [NoOp EXCEPT !.op = "turn", !.pc = "insert",
                                      !.arg = sa, !.sid = g.sid,
                                      !.created = g.created]]
                   /\ sessions' =
                        IF g.created
                          THEN [x \in DOMAIN sessions \cup {g.sid} |->
                                  IF x = g.sid THEN NewSessionRow(TurnUser, ts)
                                               ELSE sessions[x]]
                          ELSE sessions
    /\ UNCHANGED <<conversations, conv_seq, memory_facts, callVars>>

\* save_conversation, lines 192-209: INSERT INTO conversations, commit
TurnInsert(w) ==
    /\ UNCHANGED call
    /\ ops[w].op = "turn" /\ ops[w].pc = "insert"
    /\ \E ts \in ClockReadings :
         /\ now' = ts
         /\ conv_seq' = conv_seq + 1
         /\ conversations' = Append(conversations,
                [id |-> conv_seq + 1, session_id |-> ops[w].sid,
                 user_id |-> TurnUser, timestamp |-> ts,
                 user_message |-> "hi", ai_response |-> "a",
                 persona |-> PyNone])
    /\ ops' = [ops EXCEPT ![w].pc = "update", ![w].turn_id = conv_seq + 1]
    /\ UNCHANGED <<sessions, memory_facts, callVars>>

\* save_conversation, lines 211-214: update_session_activity
TurnUpdate(w) ==
    /\ UNCHANGED call
    /\ ops[w].op = "turn" /\ ops[w].pc = "update"
    /\ \E ts \in ClockReadings :
         /\ now' = ts
         /\ sessions' = update_session_activity(sessions, ops[w].sid, ts)
    /\ ops' = [ops EXCEPT ![w].pc = "done"]
    /\ UNCHANGED <<conversations, conv_seq, memory_facts, callVars>>

\* cleanup_old_sessions, line 470: cutoff_date = datetime.now() - days
CleanupBegin(w) ==
    /\ UNCHANGED call
    /\ ops[w].op = "none"
    /\ \E days \in Days, off \in UtcOffsets, ts \in ClockReadings :
         /\ now' = ts
         /\ ops' = [ops EXCEPT ![w] =
               [NoOp EXCEPT !.op = "cleanup", !.pc = "delete", !.days = days,
                            !.started = ts,
                            !.cutoff_date = (ts + off) - days * DayLen]]
    /\ UNCHANGED <<sessions, conversations, conv_seq, memory_facts, callVars>>

\* the rows of table q whose session_id is not in the set old
RECURSIVE DeleteTurnsOf(_, _)
DeleteTurnsOf(q, old) ==
    IF q = <<>> THEN <<>>
    ELSE (IF Head(q).session_id \in old THEN <<>> ELSE <<Head(q)>>)
         \o DeleteTurnsOf(Tail(q), old)

\* cleanup_old_sessions, lines 472-494: the two DELETE statements in one
\* transaction; the rowcount of the second is returned
CleanupDelete(w) ==
    /\ UNCHANGED call
    /\ ops[w].op = "cleanup" /\ ops[w].pc = "delete"
    /\ LET old == {x \in DOMAIN sessions :
                     sessions[x].last_activity < ops[w].cutoff_date}
       IN  /\ conversations' = DeleteTurnsOf(conversations, old)
           /\ sessions' = [x \in DOMAIN sessions \ old |-> sessions[x]]
           /\ ops' = [v \in Workers |->
                 IF v = w
                   THEN [ops[v] EXCEPT !.pc = "done",
                                       !.deleted_count = Cardinality(old)]
                 ELSE IF v \in InFlight
                   THEN [ops[v] EXCEPT !.overlapped = TRUE]
                 ELSE ops[v]]
    /\ UNCHANGED <<conv_seq, memory_facts, now, callVars>>

\* the rows of table q with a timestamp not before the cutoff
RECURSIVE DeleteTurnsBefore(_, _)
DeleteTurnsBefore(q, cutoff_date) ==
    IF q = <<>> THEN <<>>
    ELSE (IF Head(q).timestamp < cutoff_date THEN <<>> ELSE <<Head(q)>>)
         \o DeleteTurnsBefore(Tail(q), cutoff_date)

\* archive_old_conversations, lines 237-269: the cutoff, then the SELECT of
\* the turns older than it; with none the function returns
ArchiveBegin(w) ==
    /\ UNCHANGED call
    /\ ops[w].op = "none"
    /\ \E days \in Days, off \in UtcOffsets, ts \in ClockReadings :
         LET cutoff_date == (ts + off) - days * DayLen
             old_conversations ==
                 {conversations[i].id : i \in {j \in 1..Len(conversations) :
                     conversations[j].timestamp < cutoff_date}}
         IN
         /\ now' = ts
         /\ ops' = [ops EXCEPT ![w] =
               [NoOp EXCEPT !.op = "archive",
                            !.pc = IF old_conversations = {} THEN "done"
                                   ELSE "delete",
                            !.days = days, !.started = ts,
                            !.cutoff_date = cutoff_date,
                            !.archived = old_conversations]]
    /\ UNCHANGED <<sessions, conversations, conv_seq, memory_facts, callVars>>

\* archive_old_conversations, lines 271-318: the archive file is written,
\* then DELETE FROM conversations WHERE timestamp < cutoff and commit
ArchiveDelete(w) ==
    /\ UNCHANGED call
    /\ ops[w].op = "archive" /\ ops[w].pc = "delete"
    /\ conversations' = DeleteTurnsBefore(conversations, ops[w].cutoff_date)
    /\ ops' = [ops EXCEPT ![w].pc = "done",
                          ![w].deleted_count =
                              Len(conversations) - Len(conversations')]
    /\ UNCHANGED <<sessions, conv_seq, memory_facts, now, callVars>>

ConcNext ==
    \E w \in Workers :
        \/ TurnBegin(w) \/ TurnInsert(w) \/ TurnUpdate(w)
        \/ CleanupBegin(w) \/ CleanupDelete(w)
        \/ ArchiveBegin(w) \/ ArchiveDelete(w)

ConcSpec == Init /\ [][ConcNext]_vars

\* ------------------------------------- store functions called in a row
\* The functions of memory.py and db_management.py called one after the
\* other, each run to its end, as the endpoints of main.py and orchestrate
\* call them when requests do not overlap.

\* the turn saved again instead of added: an identical turn of the session
\* is kept as it is
save_conversation_Dedup(convs, seq, sid, uid, um, ar, pers, ts) ==
    IF \E i \in 1..Len(convs) :
          /\ convs[i].session_id = sid /\ convs[i].user_message = um
          /\ convs[i].ai_response = ar
      THEN convs
      ELSE Append(convs, [id |-> seq + 1, session_id |-> sid, user_id |-> uid,
                          timestamp |-> ts, user_message |-> um,
                          ai_response |-> ar, persona |-> pers])

\* save_conversation, lines 192-209: the table after the INSERT
save_conversation(convs, seq, sid, uid, um, ar, pers, ts) ==
    Append(convs, [id |-> seq + 1, session_id |-> sid, user_id |-> uid,
                   timestamp |-> ts, user_message |-> um, ai_response |-> ar,
                   persona |-> pers])

\* the rows that conflict with (user_id, fact_key) under UNIQUE(user_id,
\* fact_key): SQLite holds two NULLs to be distinct, so a row with no
\* user_id conflicts with nothing
FactConflicts(facts, uid, key) ==
    IF uid.t = "none" THEN {}
    ELSE {i \in 1..Len(facts) :
             facts[i].user_id = uid /\ facts[i].fact_key = key}

\* save_memory_fact: INSERT ... ON CONFLICT(user_id, fact_key) DO UPDATE
save_memory_fact(facts, key, value, uid, conf, ts) ==
    IF FactConflicts(facts, uid, key) = {}
      THEN Append(facts,
             [id |-> Len(facts) + 1, user_id |-> uid, fact_type |-> "general",
              fact_key |-> key, fact_value |-> value, confidence |-> conf,
              created_at |-> ts, updated_at |-> ts])
      ELSE [i \in 1..Len(facts) |->
              IF i \in FactConflicts(facts, uid, key)
                THEN [facts[i] EXCEPT !.fact_value = value, !.confidence = conf,
                                      !.updated_at = ts]
                ELSE facts[i]]

\* the arguments of the calls
StoreSessions == DOMAIN sessions \cup {"nosuch"}
Messages      == {"hi"}
Responses     == {"a"}
FactKeys      == {"k"}
FactValues    == {"v1", "v2"}
\* confidence, in tenths
Confidences   == {5, 10}
TurnLimits    == {0, 1, 2}
CharLimits    == {0, 20, 2000}

NextCall(fn) == [NoCall EXCEPT !.n = call.n + 1, !.fn = fn]

\* get_or_create_session(session_id, user_id)
GetOrCreateSession ==
    /\ call.n < MaxStoreCalls
    /\ \E sa \in SessionArgs, uid \in UserIds, ts \in ClockReadings :
         LET g == get_or_create_session(sessions, sa, uid, ts)
         IN
         /\ now' = ts
         /\ call' = [NextCall("get_or_create_session") EXCEPT
                        !.session_id = sa, !.user_id = uid, !.exc = g.exc,
                        !.ret = IF g.exc = "" THEN g.sid ELSE ""]
         /\ sessions' =
              IF g.exc = "" /\ g.created
                THEN [x \in DOMAIN sessions \cup {g.sid} |->
                        IF x = g.sid THEN NewSessionRow(uid, ts) ELSE sessions[x]]
                ELSE sessions
    /\ UNCHANGED <<conversations, conv_seq, memory_facts, callVars, ops>>

\* save_conversation(session_id, user_message, ai_response, user_id): the
\* INSERT, then update_session_activity
SaveConversation ==
    /\ call.n < MaxStoreCalls
    /\ \E sid \in StoreSessions, um \in Messages, ar \in Responses,
          ts \in ClockReadings :
       \E ts2 \in {t \in {ts, ts + 1} : t <= MaxClock} :
         /\ now' = ts2
         /\ conversations' = save_conversation(conversations, conv_seq, sid,
                                               TurnUser, um, ar, PyNone, ts)
         /\ conv_seq' = conv_seq + 1
         /\ sessions' = update_session_activity(sessions, sid, ts2)
         /\ call' = [NextCall("save_conversation") EXCEPT
                        !.session_id = PyStr(sid), !.user_id = TurnUser,
                        !.user_message = um, !.ai_response = ar,
                        !.count = conv_seq + 1]
    /\ UNCHANGED <<memory_facts, callVars, ops>>

\* save_memory_fact(fact_key, fact_value, user_id=..., confidence=...)
SaveMemoryFact ==
    /\ call.n < MaxStoreCalls
    /\ \E key \in FactKeys, value \in FactValues, uid \in UserIds,
          conf \in Confidences, ts \in ClockReadings :
         /\ now' = ts
         /\ memory_facts' = save_memory_fact(memory_facts, key, value, uid,
                                             conf, ts)
         /\ call' = [NextCall("save_memory_fact") EXCEPT
                        !.user_id = uid, !.fact_key = key,
                        !.fact_value = value, !.confidence = conf]
    /\ UNCHANGED <<sessions, conversations, conv_seq, callVars, ops>>

\* get_recent_context(session_id, max_turns, max_chars)
GetRecentContext ==
    /\ call.n < MaxStoreCalls
    /\ \E sid \in DOMAIN sessions, mt \in TurnLimits, mc \in CharLimits :
         call' = [NextCall("get_recent_context") EXCEPT
                     !.session_id = PyStr(sid), !.max_turns = mt,
                     !.max_chars = mc,
                     !.ret = get_recent_context(conversations, sid, mt, mc)]
    /\ UNCHANGED <<storeVars, callVars, ops>>

\* get_conversation_history(session_id, limit)
GetConversationHistory ==
    /\ call.n < MaxStoreCalls
    /\ \E sid \in DOMAIN sessions, limit \in TurnLimits :
         call' = [NextCall("get_conversation_history") EXCEPT
                     !.session_id = PyStr(sid), !.max_turns = limit,
                     !.history = get_conversation_history(conversations, sid,
                                                          limit)]
    /\ UNCHANGED <<storeVars, callVars, ops>>

\* cleanup_old_sessions(days)
CleanupOldSessions ==
    /\ call.n < MaxStoreCalls
    /\ \E days \in Days, off \in UtcOffsets, ts \in ClockReadings :
         LET cutoff_date == (ts + off) - days * DayLen
             old == {x \in DOMAIN sessions :
                        sessions[x].last_activity < cutoff_date}
         IN
         /\ now' = ts
         /\ conversations' = DeleteTurnsOf(conversations, old)
         /\ sessions' = [x \in DOMAIN sessions \ old |-> sessions[x]]
         /\ call' = [NextCall("cleanup_old_sessions") EXCEPT
                        !.days = days, !.started = ts,
                        !.count = Cardinality(old)]
    /\ UNCHANGED <<conv_seq, memory_facts, callVars, ops>>

\* archive_old_conversations(days): the turns older than the cutoff are
\* written to the archive file and deleted
ArchiveOldConversations ==
    /\ call.n < MaxStoreCalls
    /\ \E days \in Days, off \in UtcOffsets, ts \in ClockReadings :
         LET cutoff_date == (ts + off) - days * DayLen
             kept == DeleteTurnsBefore(conversations, cutoff_date)
         IN
         /\ now' = ts
         /\ conversations' = kept
         /\ call' = [NextCall("archive_old_conversations") EXCEPT
                        !.days = days, !.started = ts,
                        !.count = Len(conversations) - Len(kept)]
    /\ UNCHANGED <<sessions, conv_seq, memory_facts, callVars, ops>>

StoreNext ==
    \/ GetOrCreateSession \/ SaveConversation \/ SaveMemoryFact
    \/ GetRecentContext \/ CleanupOldSessions \/ ArchiveOldConversations
    \/ GetConversationHistory

StoreSpec == Init /\ [][StoreNext]_vars

\* ------------------------------------------- facts and the calls' context
\* Facts saved through POST /memory/facts by several users, and orchestrate
\* calls that read them into their context (core.py, lines 36-56).

\* the users that save facts: none given, the caller of orchestrate, another
FactUsers == {PyNone, PyStr("u1"), PyStr("u2")}

\* confidence: float = 1.0, in tenths
DefaultConfidence == 10

\* save_user_fact of main.py: memory.save_memory_fact with its arguments
SaveUserFact ==
    /\ call.n < MaxStoreCalls
    /\ \E key \in FactKeys, value \in FactValues, uid \in FactUsers,
          conf \in {DefaultConfidence}, ts \in ClockReadings :
         /\ now' = ts
         /\ memory_facts' = save_memory_fact(memory_facts, key, value, uid,
                                             conf, ts)
         /\ call' = [NextCall("save_user_fact") EXCEPT
                        !.user_id = uid, !.fact_key = key,
                        !.fact_value = value, !.confidence = conf]
    /\ UNCHANGED <<sessions, conversations, conv_seq, callVars, ops>>

FactNext == SaveUserFact \/ Start

FactSpec == Init /\ [][FactNext]_vars

\* ------------------------------------------------------------ properties
Last(q) == q[Len(q)]

\* this transition called run_agent / got a decoded dict back from it
Invoked   == Len(prompts') = Len(prompts) + 1
Decoded   == Invoked /\ Len(results') = Len(results) + 1
NewResult == results'[Len(results')]

\* the stored turn with the given id
TurnsWithId(id) ==
    {i \in 1..Len(conversations) : conversations[i].id = id}

RegisteredTool(v)  == v.t = "str" /\ v.s \in TOOLS
RegisteredAgent(v) == v.t = "str" /\ v.s \in AGENTS

\* exceptions raised by the agent invocation (run_agent and the LLM call)
InvocationErrors == {UNKNOWN_AGENT, LLM_ERROR, DECODE_ERROR}

\* C1: a call of orchestrate that has returned wrote exactly one turn; that
\* turn is stored under the returned session id, its user_message is the
\* original user_input and its ai_response is the returned answer.
C1_OneTurnPerReturn ==
    pc = "returned" =>
        /\ Cardinality(written) = 1
        /\ final_answer.t = "str"
        /\ \A id \in written :
             /\ Cardinality(TurnsWithId(id)) = 1
             /\ \A i \in TurnsWithId(id) :
                  /\ conversations[i].session_id = session_id
                  /\ conversations[i].user_message = user_input
                  /\ conversations[i].ai_response = final_answer.s

\* a call returned its answer "a" after a step that rewrote the query
C1_Witness ==
    /\ pc = "returned" /\ Len(events) = 2
    /\ current_query # user_input /\ final_answer = PyStr("a")

\* C2: a call makes at most max_steps agent invocations; a decoded 'final'
\* is the last invocation and no agent or tool is invoked after it (nor in
\* its own step); every started call comes to an end.
C2_BoundedAndStopsAtFinal ==
    /\ [](/\ Len(prompts) <= max_steps
          /\ \A i \in 1..Len(results) :
               results[i].d.action = PyStr("final")
                 => i = Len(results) /\ Len(prompts) = i)
    /\ [][/\ (Decoded /\ NewResult.d.action = PyStr("final"))
               => tool_calls' = tool_calls /\ pc' # "loop"
          /\ pc \in {"insert", "update", "returned", "raised"}
               => /\ prompts' = prompts \/ pc' = "idle"
                  /\ tool_calls' = tool_calls \/ pc' = "idle"]_vars
    /\ (pc = "loop" ~> pc \in {"returned", "raised"})

\* with a budget of two steps, the call returned after one invocation, whose
\* action was 'final'
C2_Witness ==
    /\ pc = "returned" /\ max_steps = 2 /\ Len(prompts) = 1
    /\ results[1].d.action = PyStr("final")

\* C3 (as claimed): a call that decoded max_steps actions, none of them
\* 'final', returns the max-steps sentinel with max_steps events and has
\* persisted exactly one turn whose ai_response is the sentinel.
C3_Claim ==
    (/\ pc \in {"returned", "raised"}
     /\ Len(results) = max_steps
     /\ \A i \in 1..Len(results) : results[i].d.action # PyStr("final"))
    => /\ pc = "returned"
       /\ final_answer = PyStr(MAX_STEPS_ANSWER)
       /\ Len(events) = max_steps
       /\ Cardinality(written) = 1
       /\ \A id \in written : \A i \in TurnsWithId(id) :
            conversations[i].ai_response = MAX_STEPS_ANSWER

\* C4: a step whose LLM transport call fails ends the call with the
\* transport error, leaves sessions and turns as they were, and the call
\* has written no turn; a raised call never returns an answer and changes
\* nothing in the store.
C4_LlmFailureRaises ==
    [][/\ (Invoked /\ Last(prompts').reply.kind = "fail")
            => /\ pc' = "raised" /\ error' = LLM_ERROR
               /\ written = {} /\ written' = {}
               /\ UNCHANGED <<sessions, conversations, conv_seq>>
       /\ pc = "raised"
            => /\ pc' \in {"raised", "idle"}
               /\ UNCHANGED <<sessions, conversations, conv_seq>>]_vars

\* the LLM call failed at the second step of a call on the stored session
\* that has a turn
C4_Witness ==
    /\ pc = "raised" /\ error = LLM_ERROR /\ Len(events) = 1
    /\ session_id = OldSession /\ Len(conversations) = 1

\* C5 (as claimed): every terminal outcome, an agent-invocation error
\* included, has persisted exactly one turn.
C5_Claim ==
    (pc = "returned" \/ (pc = "raised" /\ error \in InvocationErrors))
    => Cardinality(written) = 1

\* C5 (amended): a call that returns has persisted exactly one turn; a call
\* that ends in an agent-invocation error has persisted none.
C5_TurnIffReturned ==
    /\ pc = "returned" => Cardinality(written) = 1
    /\ (pc = "raised" /\ error \in InvocationErrors) => written = {}

\* a call ended in an agent-invocation error after a recorded step
C5_Witness ==
    pc = "raised" /\ error \in InvocationErrors /\ Len(events) = 1

\* C6 (as claimed): a decoded 'use_tool' whose tool is not registered calls
\* no tool, does not fail, and hands the next step to the coordinator with
\* the corrective query naming the tool.
C6_Claim ==
    [][(/\ Decoded /\ NewResult.d.action = PyStr("use_tool")
        /\ ~RegisteredTool(NewResult.d.tool))
       => /\ tool_calls' = tool_calls
          /\ pc' = "loop" /\ error' = ""
          /\ Len(events') = Len(events) + 1
          /\ current_agent' = COORDINATOR
          /\ current_query' = UnknownToolQuery(NewResult.d.tool)]_vars

\* C7 (as claimed): a decoded 'use_tool' with a registered tool calls that
\* tool once with the decoded args, keeps the active agent, embeds the
\* tool's output in the next query and persists no turn.
C7_Claim ==
    [][(/\ Decoded /\ NewResult.d.action = PyStr("use_tool")
        /\ RegisteredTool(NewResult.d.tool))
       => LET tl == NewResult.d.tool
              kw == ArgsOrEmpty(NewResult.d.args)
          IN  /\ tool_calls' = Append(tool_calls, [tool |-> tl.s, kw |-> kw])
              /\ current_agent' = current_agent
              /\ \E oc \in ToolOutcomes(tl.s, kw) :
                    oc.exc = "" /\ current_query' = ToolQuery(tl, oc.out)
              /\ UNCHANGED <<conversations, written>>]_vars

\* the next query the claim C8 describes
ClaimedDelegateQuery(args, answer, u_input) ==
    IF args.task # Absent THEN PyFormat(args.task)
    ELSE IF Truthy(answer) THEN PyFormat(answer)
    ELSE "User goal: " \o u_input

\* C8 (as claimed): a decoded 'delegate' to a registered agent makes that
\* agent active and sets the next query to args' task if present, else the
\* decoded answer, else the user goal.
C8_Claim ==
    [][(/\ Decoded /\ NewResult.d.action = PyStr("delegate")
        /\ RegisteredAgent(NewResult.d.target_agent))
       => /\ current_agent' = NewResult.d.target_agent.s
          /\ current_query' =
               ClaimedDelegateQuery(NewResult.d.args, NewResult.d.answer,
                                    user_input)]_vars

\* C9 (as claimed): a decoded 'delegate' whose target is not registered
\* raises no error, makes the coordinator active and sets the corrective
\* query naming the agent.
C9_Claim ==
    [][(/\ Decoded /\ NewResult.d.action = PyStr("delegate")
        /\ ~RegisteredAgent(NewResult.d.target_agent))
       => /\ pc' = "loop" /\ error' = ""
          /\ current_agent' = COORDINATOR
          /\ current_query' = UnknownAgentQuery(NewResult.d.target_agent)]_vars

\* C10 (as claimed): any decoded action other than 'final', 'use_tool' and
\* 'delegate' is recorded, raises no error, makes the coordinator active
\* and sets the corrective query that embeds the decoded record.
C10_Claim ==
    [][(/\ Decoded
        /\ NewResult.d.action
             \notin {PyStr("final"), PyStr("use_tool"), PyStr("delegate")})
       => /\ events' = Append(events, NewEvent(step, current_agent, NewResult.d))
          /\ pc' = "loop" /\ error' = ""
          /\ current_agent' = COORDINATOR
          /\ current_query' =
               InvalidActionQuery(NewResult.d.action, NewResult)]_vars

\* C11 (as claimed): at every point of a run the trace holds one event per
\* completed agent invocation, numbered 1..k in order, and event i records
\* the agent invoked at step i and the action, tool and target_agent that
\* step decoded.
C11_Claim ==
    /\ Len(events) = Len(results)
    /\ \A i \in 1..Len(events) :
         /\ events[i].step = i
         /\ events[i].agent = prompts[i].agent
         /\ events[i].action = results[i].d.action
         /\ events[i].tool = results[i].d.tool
         /\ events[i].target_agent = results[i].d.target_agent

\* the response text of the one run_agent call made on its own
DecodedText == prompts[1].reply.raw
DecodeEnded == pc \in {"decoded", "raised"}

\* C12 (as claimed): for every response text run_agent returns one record
\* that carries all six fields, and raises nothing.
C12_Claim ==
    DecodeEnded =>
        /\ pc = "decoded" /\ error = "" /\ Len(results) = 1
        /\ \A i \in 1..Len(SchemaKeys) : results[1].d[SchemaKeys[i]].t # "absent"

\* the text is not JSON: it does not parse as a whole, and the part from
\* its first { to its last } is absent or does not parse
NotJson(raw) ==
    /\ ~json_loads(raw).ok
    /\ \/ BraceStart(raw) = 0 \/ BraceEnd(raw) < BraceStart(raw)
       \/ ~json_loads(SubSeq(raw, BraceStart(raw), BraceEnd(raw))).ok

\* the degraded record the claim C13 describes
DegradedRecord(text) ==
    [thought |-> PyStr("JSON parsing failed"), action |-> PyStr("final"),
     tool |-> PyNone, target_agent |-> PyNone, args |-> EmptyDict,
     answer |-> PyStr(text)]

\* C13 (as claimed): a response that is not JSON decodes to the degraded
\* 'final' record whose answer is the raw text, and the step ends the turn
\* with the raw text as the answer.
C13_Claim ==
    [][(Invoked /\ Last(prompts').reply.kind = "text"
               /\ NotJson(Last(prompts').reply.raw))
       => /\ Decoded
          /\ NewResult.d = DegradedRecord(TextOf(Last(prompts').reply.raw))
          /\ pc' = "insert"
          /\ final_answer' = PyStr(TextOf(Last(prompts').reply.raw))]_vars

\* C13 (amended): a response that is not JSON decodes to the degraded
\* 'final' record whose answer is the raw text, and the step ends the turn
\* with the raw text as the answer, or with '[NO ANSWER]' when the raw
\* text is empty.
C13_FallbackEndsTurn ==
    [][(Invoked /\ Last(prompts').reply.kind = "text"
               /\ NotJson(Last(prompts').reply.raw))
       => LET text == TextOf(Last(prompts').reply.raw)
          IN  /\ Decoded
              /\ NewResult.d = DegradedRecord(text)
              /\ pc' = "insert"
              /\ final_answer' =
                   IF text = "" THEN PyStr(NO_ANSWER) ELSE PyStr(text)]_vars

\* the second step of a call got prose in braces and the call returned it
C13_Witness ==
    /\ pc = "returned" /\ Len(results) = 2
    /\ Last(prompts).reply.raw = <<OpenBrace, Prose("x"), CloseBrace>>
    /\ final_answer = PyStr("{ x }")

\* the JSON objects a text holds: its obj tokens and each { } pair
ObjectsIn(raw) ==
    {i \in 1..Len(raw) :
        \/ raw[i].k = "obj"
        \/ raw[i].k = "open" /\ i < Len(raw) /\ raw[i + 1].k = "close"}

\* C14 (as claimed): a text that holds one JSON object in surrounding
\* prose, whatever the prose, decodes to that object's fields.
C14_Claim ==
    (/\ DecodeEnded /\ Len(DecodedText) > 1
     /\ Cardinality(ObjectsIn(DecodedText)) = 1
     /\ \E i \in ObjectsIn(DecodedText) : DecodedText[i].k = "obj")
    => /\ pc = "decoded"
       /\ \A i \in ObjectsIn(DecodedText) :
            \A j \in 1..Len(SchemaKeys) :
               LET key == SchemaKeys[j]
               IN  DecodedText[i].obj[key].t # "absent"
                     => results[1].d[key] = DecodedText[i].obj[key]

\* the documented default of a missing field
C15_Default(key) ==
    CASE key = "action" -> PyStr("final")
      [] key \in {"tool", "target_agent"} -> PyNone
      [] key = "args" -> ArgsDict([task |-> Absent, code |-> Absent])
      [] OTHER -> PyStr("")

\* C15: a response that parses as a JSON object is never rejected; the
\* decoded record has, for each of the six fields, the value the object
\* holds if the field is present (null included) and the documented
\* default if it is missing.
C15_LosslessWithDefaults ==
    (DecodeEnded /\ Len(DecodedText) = 1 /\ DecodedText[1].k = "obj")
    => /\ pc = "decoded" /\ error = ""
       /\ \A j \in 1..Len(SchemaKeys) :
            LET key == SchemaKeys[j]
                given == DecodedText[1].obj[key]
            IN  results[1].d[key] =
                   IF given.t # "absent" THEN given ELSE C15_Default(key)

\* the object with a null action and four missing fields was decoded
C15_Witness ==
    /\ pc = "decoded" /\ DecodedText = <<ObjTok(SparseObj)>>
    /\ results[1].d.action = PyNone /\ results[1].d.thought = PyStr("")

\* the answer the claim C16 has a 'final' step return
C16_Expected(answer) ==
    IF answer \in {PyStr(""), PyNone} THEN PyStr(NO_ANSWER) ELSE answer

\* C16 (as claimed): a call whose last decoded action is 'final' returns
\* '[NO ANSWER]' when the decoded answer is empty or absent and the answer
\* itself when it is non-empty, and has persisted what it returned.
C16_Claim ==
    (/\ pc \in {"returned", "raised"} /\ results # <<>>
     /\ Last(results).d.action = PyStr("final"))
    => /\ pc = "returned"
       /\ final_answer = C16_Expected(Last(results).d.answer)
       /\ \A id \in written : \A i \in TurnsWithId(id) :
            conversations[i].ai_response = PyFormat(final_answer)

\* the savers whose turn is stored while the session's last_activity and
\* message_count are not yet updated
HalfSaved == {w \in Workers : ops[w].op = "turn" /\ ops[w].pc = "update"}

\* C17 (as claimed): save_conversation is atomic: while a save has stored
\* its turn and not yet updated the session, no other operation takes a
\* step (none observes or acts on that state), and the session row the
\* update is for is still there when the update runs.
C17_Claim ==
    [][\A w \in HalfSaved :
          /\ \A v \in Workers \ {w} : ops'[v] = ops[v]
          /\ ops[w].sid \in DOMAIN sessions]_vars

\* C18 (as claimed): a turn whose session cleanup_old_sessions went over
\* while the turn was in flight is not lost: when the turn is complete its
\* session row exists and its turn is stored under that session.
C18_Claim ==
    \A w \in Workers :
       (ops[w].op = "turn" /\ ops[w].pc = "done" /\ ops[w].overlapped)
       => /\ ops[w].sid \in DOMAIN sessions
          /\ \E i \in TurnsWithId(ops[w].turn_id) :
                conversations[i].session_id = ops[w].sid

\* the sessions cleanup_old_sessions is claimed to delete: last_activity
\* strictly older than the time of the call minus days
ClaimedOld(w) ==
    {x \in DOMAIN sessions :
        sessions[x].last_activity < ops[w].started - ops[w].days * DayLen}

\* C19 (as claimed): the deleting step of cleanup_old_sessions(days)
\* removes exactly the sessions whose last_activity is strictly older than
\* the start of the call minus days, and exactly the turns of those
\* sessions, touches no fact and returns the number of sessions removed.
C19_Claim ==
    [][\A w \in Workers :
          (ops[w].op = "cleanup" /\ ops[w].pc = "delete" /\ ops'[w].pc = "done")
          => /\ DOMAIN sessions' = DOMAIN sessions \ ClaimedOld(w)
             /\ \A x \in DOMAIN sessions' : sessions'[x] = sessions[x]
             /\ conversations' = DeleteTurnsOf(conversations, ClaimedOld(w))
             /\ memory_facts' = memory_facts
             /\ ops'[w].deleted_count = Cardinality(ClaimedOld(w))]_vars

\* C20 (as claimed): every get_or_create_session call made without an id
\* returns an id (it does not fail), and no two such calls return the same
\* id.
C20_Claim ==
    \A w \in Workers :
       (ops[w].op = "turn" /\ ops[w].arg = PyNone)
       => /\ ops[w].pc # "raised"
          /\ \A v \in Workers \ {w} :
                (ops[v].op = "turn" /\ ops[v].arg = PyNone /\ ops[v].pc # "raised")
                => ops[v].sid # ops[w].sid

C28_Claim ==
    (/\ pc \in {"returned", "raised"} /\ Len(results) = 2
     /\ prompts[1].agent = COORDINATOR
     /\ results[1].d.action = PyStr("use_tool")
     /\ results[1].d.tool = PyStr("run_python")
     /\ results[2].d.action = PyStr("final")
     /\ Truthy(results[2].d.answer))
    => /\ pc = "returned"
       /\ final_answer = results[2].d.answer
       /\ Len(events) = 2
       /\ events[1].action = PyStr("use_tool")
       /\ events[1].tool = PyStr("run_python")
       /\ events[1].agent = COORDINATOR /\ events[2].agent = COORDINATOR

RECURSIVE TurnTexts(_)
TurnTexts(q) ==
    IF q = <<>> THEN <<>> ELSE <<TurnText(Head(q))>> \o TurnTexts(Tail(q))

\* the renderings of the most recent turns of a session that end with its
\* newest turn: the header, then the last k turns oldest first
RecentRenderings(turns) ==
    {"Previous conversation:\n"
        \o Join(TurnTexts(SubSeq(turns, k, Len(turns))), "\n") :
     k \in 1..Len(turns)}

\* C29 (as claimed): a call on a session that holds saved turns runs under
\* that session id with context_used true, and the context it supplies to
\* the agent holds the turn saved last.
C29_Claim ==
    [][(/\ pc = "idle" /\ pc' = "loop"
        /\ session_id' \in DOMAIN sessions
        /\ SelectWhere(conversations, session_id') # <<>>)
       => /\ context_used' = TRUE
          /\ Len(context_log') = 1
          /\ \E r \in RecentRenderings(SelectWhere(conversations, session_id')) :
                context_log'[1] =
                   (IF Truthy(user_id')
                         /\ format_memory_facts(memory_facts, user_id') # ""
                      THEN format_memory_facts(memory_facts, user_id') \o "\n\n"
                      ELSE "") \o r]_vars

\* the memory context of the call, as a list of zero or one entries
MemoryContext == IF context_used THEN <<context_log[1]>> ELSE <<>>

\* the serialized records of the first n steps of the call
RECURSIVE StepRecords(_)
StepRecords(n) ==
    IF n = 0 THEN <<>>
    ELSE Append(StepRecords(n - 1),
                "[" \o prompts[n].agent \o " step " \o ToString(n) \o "] "
                    \o json_dumps(results[n]))

\* C30: the extra context of the k-th agent invocation of a call is the
\* memory context (if any) followed by the serialized records of steps
\* 1..k-1 in order, joined by newlines; the log only grows during a call.
C30_AppendOnlyContext ==
    /\ [](pc \in {"loop", "insert", "update", "returned", "raised"}
          => \A k \in 1..Len(prompts) :
                prompts[k].extra_context =
                   Join(MemoryContext \o StepRecords(k - 1), "\n"))
    /\ [][pc = "loop"
          => /\ Len(context_log') >= Len(context_log)
             /\ SubSeq(context_log', 1, Len(context_log)) = context_log]_vars

\* the second invocation of a call that has a memory context went to the
\* coder, and its record was appended too
C30_Witness ==
    /\ Len(prompts) = 2 /\ context_used
    /\ prompts[2].agent = "coder" /\ Len(context_log) = 3

\* ------------------------------------------- the store functions (C21-C26)
\* this step is a call of store function fn
Called(fn) == call'.n = call.n + 1 /\ call'.fn = fn

\* C21: get_or_create_session called with a session id that is in the store
\* returns that id and changes nothing in the store, whatever user_id is
\* passed: no row is created and no session's fields change.
C21_ExistingSessionUnchanged ==
    [][(/\ Called("get_or_create_session")
        /\ call'.session_id.t = "str"
        /\ call'.session_id.s \in DOMAIN sessions)
       => /\ call'.exc = ""
          /\ call'.ret = call'.session_id.s
          /\ sessions' = sessions
          /\ conversations' = conversations
          /\ conv_seq' = conv_seq
          /\ memory_facts' = memory_facts]_vars

\* the session of user u1 has been fetched by a caller that passed no user
C21_Witness ==
    /\ call.fn = "get_or_create_session"
    /\ call.session_id = PyStr(OldSession)
    /\ call.user_id = PyNone
    /\ call.ret = OldSession
    /\ OldSession \in DOMAIN sessions
    /\ sessions[OldSession].user_id = PyStr("u1")

\* C22 (as claimed): get_or_create_session called with no id, or with an id
\* that is not in the store, mints a new id that is not the one supplied,
\* stores exactly one new session row with message_count 0 and returns the
\* minted id.
C22_Claim ==
    [][(/\ Called("get_or_create_session")
        /\ \/ call'.session_id.t = "none"
           \/ call'.session_id.s \notin DOMAIN sessions)
       => /\ call'.exc = ""
          /\ call'.ret \notin DOMAIN sessions
          /\ call'.session_id.t = "str" => call'.ret # call'.session_id.s
          /\ DOMAIN sessions' = DOMAIN sessions \cup {call'.ret}
          /\ sessions'[call'.ret].message_count = 0
          /\ \A x \in DOMAIN sessions : sessions'[x] = sessions[x]]_vars

\* the turns of table q stored under session sid
TurnCount(q, sid) == Len(SelectWhere(q, sid))

\* C23: conversation history is append-only.  A save_conversation call adds
\* exactly one new turn, also when the same turn is already stored; no step
\* changes a field of a stored turn; a turn leaves the store only in a
\* cleanup_old_sessions or archive_old_conversations step.
C23_AppendOnly ==
    [][/\ Called("save_conversation")
          => /\ Len(conversations') = Len(conversations) + 1
             /\ SubSeq(conversations', 1, Len(conversations)) = conversations
             /\ LET turn == Last(conversations')
                IN /\ turn.session_id = call'.session_id.s
                   /\ turn.user_message = call'.user_message
                   /\ turn.ai_response = call'.ai_response
                   /\ \A i \in 1..Len(conversations) :
                         conversations[i].id # turn.id
                   /\ TurnCount(conversations', turn.session_id)
                         = TurnCount(conversations, turn.session_id) + 1
       /\ \A i \in 1..Len(conversations), j \in 1..Len(conversations') :
             conversations'[j].id = conversations[i].id
                => conversations'[j] = conversations[i]
       /\ (\E i \in 1..Len(conversations) :
              \A j \in 1..Len(conversations') :
                 conversations'[j].id # conversations[i].id)
          => call'.fn \in {"cleanup_old_sessions", "archive_old_conversations"}
      ]_vars

\* the same exchange saved twice in one session is stored as two turns
C23_Witness ==
    /\ call.fn = "save_conversation"
    /\ \E i, j \in 1..Len(conversations) :
          /\ i < j
          /\ conversations[i].id # conversations[j].id
          /\ conversations[i].session_id = conversations[j].session_id
          /\ conversations[i].user_message = conversations[j].user_message
          /\ conversations[i].ai_response = conversations[j].ai_response

\* the rows of memory_facts stored under (uid, key)
FactRows(facts, uid, key) ==
    {i \in 1..Len(facts) : facts[i].user_id = uid /\ facts[i].fact_key = key}

\* C24 (as claimed): the store never holds two fact rows with the same
\* (user_id, fact_key), a missing user_id included, and after a
\* save_memory_fact call the pair has exactly one row, which carries the
\* value and the confidence of that call.
C24_Claim ==
    /\ [](\A i, j \in 1..Len(memory_facts) :
             (/\ memory_facts[i].user_id = memory_facts[j].user_id
              /\ memory_facts[i].fact_key = memory_facts[j].fact_key)
             => i = j)
    /\ [][Called("save_memory_fact")
          => \E i \in 1..Len(memory_facts') :
                /\ FactRows(memory_facts', call'.user_id, call'.fact_key) = {i}
                /\ memory_facts'[i].fact_value = call'.fact_value
                /\ memory_facts'[i].confidence = call'.confidence]_vars

\* C25 (as claimed): the text get_recent_context returns, header line and
\* separators counted, is never longer than max_chars.
C25_Claim ==
    call.fn = "get_recent_context" => Len(call.ret) <= call.max_chars

\* C26 (as claimed): get_recent_context includes the most recent turns of
\* the max_turns window: when the newest turn of the session alone fits
\* within max_chars, the text returned is the header followed by the last
\* turns of the session, oldest first, the newest turn among them.
C26_Claim ==
    (/\ call.fn = "get_recent_context"
     /\ call.max_turns >= 1
     /\ SelectWhere(conversations, call.session_id.s) # <<>>
     /\ Len("Previous conversation:\n")
          + Len(TurnText(Last(get_conversation_history(
                   conversations, call.session_id.s, call.max_turns))))
          <= call.max_chars)
    => call.ret \in RecentRenderings(get_conversation_history(
                       conversations, call.session_id.s, call.max_turns))

\* ------------------------------------------------------------ C31 - C39
\* the last n rows of q
LastRows(q, n) == SubSeq(q, Len(q) - Min(n, Len(q)) + 1, Len(q))

\* C31 (as claimed): the turns of a session carry timestamps that never
\* decrease in the order they were saved, and get_conversation_history
\* returns the last limit turns saved for the session in the order they
\* were saved, also when turns of the session share a timestamp.
C31_Claim ==
    /\ \A sid \in DOMAIN sessions :
          LET turns == SelectWhere(conversations, sid)
          IN \A i, j \in 1..Len(turns) :
                i < j => turns[i].timestamp <= turns[j].timestamp
    /\ call.fn = "get_conversation_history"
          => call.history = LastRows(SelectWhere(conversations,
                                                 call.session_id.s),
                                     call.max_turns)

\* the characters of the renderings of the turns of q
RECURSIVE RenderedChars(_)
RenderedChars(q) ==
    IF q = <<>> THEN 0 ELSE Len(TurnText(Head(q))) + RenderedChars(Tail(q))

\* the header and the complete renderings of the turns of q
RenderTurns(q) ==
    IF q = <<>> THEN ""
    ELSE "Previous conversation:\n" \o Join(TurnTexts(q), "\n")

\* w holds at most n turns of the session, none older than a turn of the
\* session it leaves out, in time order
RecentWindow(w, turns, n) ==
    /\ Len(w) = Min(n, Len(turns))
    /\ \A i \in 1..Len(w) : \E j \in 1..Len(turns) : w[i] = turns[j]
    /\ \A i, j \in 1..Len(w) : i # j => w[i].id # w[j].id
    /\ \A i, j \in 1..Len(w) : i < j => w[i].timestamp <= w[j].timestamp
    /\ \A i \in 1..Len(w), j \in 1..Len(turns) :
          (\A k \in 1..Len(w) : w[k].id # turns[j].id)
             => turns[j].timestamp <= w[i].timestamp

\* C32: get_recent_context includes no part of a turn.  The text is the
\* header and the complete renderings of the first k turns of the window of
\* at most max_turns most recent turns, in time order, and when k is not
\* the whole window, turn k + 1 is the first that would overflow max_chars:
\* nothing after it is included, also when it would fit.
C32_WholeTurnsUntilOverflow ==
    call.fn = "get_recent_context"
    => LET w == get_conversation_history(conversations, call.session_id.s,
                                         call.max_turns)
       IN /\ RecentWindow(w, SelectWhere(conversations, call.session_id.s),
                          call.max_turns)
          /\ \E k \in 0..Len(w) :
                /\ call.ret = RenderTurns(SubSeq(w, 1, k))
                /\ RenderedChars(SubSeq(w, 1, k)) <= call.max_chars
                /\ k < Len(w)
                     => RenderedChars(SubSeq(w, 1, k + 1)) > call.max_chars

\* the older turn of the window overflows max_chars, the newest would fit:
\* neither is rendered
C32_Witness ==
    /\ call.fn = "get_recent_context"
    /\ call.ret = ""
    /\ LET w == get_conversation_history(conversations, call.session_id.s,
                                         call.max_turns)
       IN /\ Len(w) = 2
          /\ Len(TurnText(w[1])) > call.max_chars
          /\ Len(TurnText(w[2])) <= call.max_chars

\* C33 (as claimed): a transport failure of the MCP bridge is not recovered:
\* the loop never carries on with the failure as the output of the tool.
\* The call ends in an error, so no call that met one returns or saves a
\* turn.
C33_Claim ==
    /\ \A t \in McpTools :
          current_query # ToolQuery(PyStr(t), McpTransportError(t))
    /\ \A k \in 1..Len(prompts), t \in McpTools :
          prompts[k].query = ToolQuery(PyStr(t), McpTransportError(t))
             => pc \notin {"insert", "update", "returned"} /\ written = {}

\* the ids of the turns that are in table q and not in table r
RemovedIds(q, r) ==
    {q[i].id : i \in 1..Len(q)} \ {r[i].id : i \in 1..Len(r)}

\* C34 (as claimed): the DELETE of archive_old_conversations removes only
\* turns that the same run read into its archive, all of them older than
\* the cutoff of the run, whatever save_conversation calls ran between its
\* SELECT and its DELETE.
C34_Claim ==
    [][\A w \in Workers :
          (ops[w].op = "archive" /\ ops[w].pc = "delete" /\ ops'[w].pc = "done")
          => /\ RemovedIds(conversations, conversations') \subseteq ops[w].archived
             /\ \A i \in 1..Len(conversations) :
                   conversations[i].id \in RemovedIds(conversations, conversations')
                      => conversations[i].timestamp < ops[w].cutoff_date]_vars

\* C35: in every state of an orchestrate call the active agent is a key of
\* the agent registry, every run_agent call of the loop was made for a
\* registered agent, and the call never ends in run_agent's unknown-agent
\* error.
C35_ActiveAgentRegistered ==
    /\ current_agent \in AGENTS
    /\ \A k \in 1..Len(prompts) : prompts[k].agent \in AGENTS
    /\ error # UNKNOWN_AGENT

\* a step delegated to an agent that is not registered and the loop goes on
\* under the orchestrator
C35_Witness ==
    /\ pc = "loop" /\ step = 1 /\ Len(results) = 1
    /\ results[1].d.action = PyStr("delegate")
    /\ results[1].d.target_agent = PyStr("ghost")
    /\ current_agent = COORDINATOR
    /\ current_query = UnknownAgentQuery(PyStr("ghost"))

\* C36 (as claimed): whatever the interleaving of orchestrate calls and
\* cleanup_old_sessions, every stored turn belongs to a stored session.
C36_Claim ==
    \A i \in 1..Len(conversations) :
        conversations[i].session_id \in DOMAIN sessions

\* C37 (as claimed): between calls of the store functions, the
\* message_count of every session row is the number of turns stored for
\* that session.
C37_Claim ==
    \A sid \in DOMAIN sessions :
        sessions[sid].message_count = TurnCount(conversations, sid)

\* the rows of table q stored with user_id uid, in rowid order
RECURSIVE OwnFacts(_, _)
OwnFacts(q, uid) ==
    IF q = <<>> THEN <<>>
    ELSE (IF Head(q).user_id = uid THEN <<Head(q)>> ELSE <<>>)
         \o OwnFacts(Tail(q), uid)

\* the facts text of a call of user uid over fact table q: one line per row
\* stored with that user_id, nothing for a call without user_id
OwnFactsText(q, uid) ==
    IF uid.t = "none" \/ OwnFacts(q, uid) = <<>> THEN ""
    ELSE "Known facts about user:\n"
         \o Join(FactLines(OrderFacts(OwnFacts(q, uid))), "\n")

\* the context entry made of a facts text and a conversation text
ContextOf(facts_text, conversation_text) ==
    IF facts_text = "" /\ conversation_text = "" THEN <<>>
    ELSE IF facts_text = "" THEN <<conversation_text>>
    ELSE IF conversation_text = "" THEN <<facts_text>>
    ELSE <<facts_text \o "\n\n" \o conversation_text>>

\* C38: the facts in the context of an orchestrate call of user u are
\* exactly the facts stored with user_id = u, a call without user_id gets no
\* facts, and the context and context_used of the call are the same after a
\* fact of another user is added or changed.
C38_FactIsolation ==
    [][(pc = "idle" /\ pc' = "loop")
       => LET conversation_text ==
                  get_recent_context(conversations, session_id', 5, 2000)
              ctx == ContextOf(OwnFactsText(memory_facts, user_id'),
                               conversation_text)
          IN /\ context_log' = ctx
             /\ context_used' = (ctx # <<>>)
             /\ \A other \in FactUsers \ {user_id'}, value \in FactValues,
                   conf \in Confidences :
                   ContextOf(
                      IF Truthy(user_id')
                        THEN format_memory_facts(
                               save_memory_fact(memory_facts, "k", value,
                                                other, conf, now'),
                               user_id')
                        ELSE "",
                      conversation_text) = ctx]_vars

\* a call of u1 was started while the store held a fact of u1 and a fact of
\* u2: its context holds the fact of u1 alone
C38_Witness ==
    /\ pc = "loop" /\ user_id = PyStr("u1") /\ context_used
    /\ OwnFacts(memory_facts, PyStr("u1")) # <<>>
    /\ OwnFacts(memory_facts, PyStr("u2")) # <<>>
    /\ Len(context_log) = 1
    /\ context_log[1] = OwnFactsText(memory_facts, PyStr("u1"))

\* C39: an orchestrate call that ends in an LLM transport error has changed
\* the store at most by one new session row with message_count 0, made when
\* it was called without the id of a stored session.  Its first step leaves
\* turns, facts and the stored session rows as they are, the steps of its
\* loop leave the whole store as it is, and it saves no turn.
C39_FailedCallFrame ==
    /\ []((pc = "raised" /\ error = LLM_ERROR) => written = {})
    /\ [][/\ pc = "idle"
             => /\ conversations' = conversations
                /\ conv_seq' = conv_seq
                /\ memory_facts' = memory_facts
                /\ \A x \in DOMAIN sessions :
                      x \in DOMAIN sessions' /\ sessions'[x] = sessions[x]
                /\ \A x \in DOMAIN sessions' \ DOMAIN sessions :
                      /\ x = session_id'
                      /\ sessions'[x].message_count = 0
                      /\ DOMAIN sessions' = DOMAIN sessions \cup {x}
          /\ pc = "loop"
             => /\ sessions' = sessions
                /\ conversations' = conversations
                /\ conv_seq' = conv_seq
                /\ memory_facts' = memory_facts]_vars

\* a call without session id made a session, ran one step and met the
\* transport error in its second LLM call
C39_Witness ==
    /\ pc = "raised" /\ error = LLM_ERROR
    /\ Len(prompts) = 2 /\ Len(results) = 1
    /\ session_id \in DOMAIN sessions
    /\ sessions[session_id].created_at >= 1
    /\ sessions[session_id].message_count = 0
    /\ written = {}

====
